---- MODULE Spec2Model ----
(***************************************************************************)
(* iced_gif: decoding a GIF into Frames (src/src/widget/gif.rs,            *)
(* Frames::from_bytes) and the Gif widget's playback state (State, diff,   *)
(* on_event).  Time is counted in ticks of the unit in which the decoder   *)
(* reports frame delays; Instant values are tick counts since start-up.    *)
(***************************************************************************)
EXTENDS Integers, Sequences, FiniteSets, TLC

\* ---------------------------------------------------------------- bounds
MaxTime == 4      \* the clock stops ticking here
MaxDelay == 2     \* largest frame delay a container states
MaxFrames == 2    \* most frames a container holds

\* Values of decoder.total_bytes(): only ever compared for equality.
TotalBytes == {"x", "y"}

\* Option<T>: None is the empty sequence, Some(x) the sequence <<x>>.
None == <<>>
Some(x) == <<x>>

\* -------------------------------------------------------- decoder inputs
\* What image_rs yields for one image of the container: Ok(frame) with its
\* delay and pixel buffer, or Err.  A buffer is named by the place of its
\* image in the container.
DecodeFailure == [ok |-> FALSE, delay |-> 0, buffer |-> 0]

SourceFrames ==
    {[ok |-> TRUE, delay |-> d, buffer |-> b] : d \in 0..MaxDelay, b \in 1..MaxFrames}
        \cup {DecodeFailure}

SeqsUpTo(S, n) == UNION {[1..k -> S] : k \in 0..n}

FrameSeqs ==
    {fs \in SeqsUpTo(SourceFrames, MaxFrames) :
        \A k \in 1..Len(fs) : fs[k].ok => fs[k].buffer = k}

\* The bytes handed to from_bytes, seen through image_rs: whether
\* GifDecoder::new accepts the header, what total_bytes() reports, and the
\* per-frame results of into_frames().  Nothing more is read of a
\* container whose header is refused.
Containers ==
    [header_ok : {TRUE}, total_bytes : TotalBytes, frames : FrameSeqs]
        \cup {[header_ok |-> FALSE, total_bytes |-> "x", frames |-> <<>>]}

\* ------------------------------------------------------------ the decoder
\* impl From<image_rs::Frame> for Frame: the delay is taken over as it is,
\* the buffer becomes the image handle.
FrameFrom(frame) == [delay |-> frame.delay, handle |-> frame.buffer]

\* A collect that keeps the frames decoded before the first failure.
CollectPartial(results) ==
    LET bad == {i \in 1..Len(results) : ~results[i].ok}
        n == IF bad = {} THEN Len(results)
             ELSE (CHOOSE i \in bad : \A j \in bad : i <= j) - 1
    IN [tag |-> "Ok", value |-> [i \in 1..n |-> FrameFrom(results[i])]]

\* .map(|result| result.map(Frame::from)).collect::<Result<Vec<_>, _>>()
Collect(results) ==
    IF \E i \in 1..Len(results) : ~results[i].ok
    THEN [tag |-> "Err", value |-> None]
    ELSE [tag |-> "Ok", value |-> [i \in 1..Len(results) |-> FrameFrom(results[i])]]

\* Frames::from_bytes.  "Panic" is frames.first().cloned().unwrap() on an
\* empty Vec.
FromBytes(bytes) ==
    IF ~bytes.header_ok THEN [tag |-> "Err", value |-> None]
    ELSE LET frames == Collect(bytes.frames) IN
         IF frames.tag = "Err" THEN frames
         ELSE IF Len(frames.value) = 0 THEN [tag |-> "Panic", value |-> None]
         ELSE [tag |-> "Ok",
               value |-> Some([total_bytes |-> bytes.total_bytes,
                               first |-> frames.value[1],
                               frames |-> frames.value])]

\* Result::ok(), as the application's update applies it to the message.
OkOf(res) == IF res.tag = "Ok" THEN res.value ELSE None

\* ------------------------------------------------------- the widget state
\* The distance between two instants, whichever of them is the later.
DurationSinceAbs(self, earlier) ==
    IF self >= earlier THEN self - earlier ELSE earlier - self

\* Instant::duration_since: saturates to zero when `earlier` is later.
DurationSince(self, earlier) ==
    IF self >= earlier THEN self - earlier ELSE 0

\* impl From<Frame> for Current: started is Instant::now().
CurrentFrom(frame, clk) == [frame |-> frame, started |-> clk]

\* Gif::state
NewState(fr, clk) ==
    [index |-> 0, current |-> CurrentFrom(fr.first, clk), total_bytes |-> fr.total_bytes]

\* A diff that rebinds the identity and keeps the playback position.
DiffKeep(st, fr, clk) ==
    [st EXCEPT !.total_bytes = fr.total_bytes]

\* A diff that starts every rebuilt widget over.
DiffAlways(st, fr, clk) == NewState(fr, clk)

\* Gif::diff
Diff(st, fr, clk) ==
    IF st.total_bytes # fr.total_bytes THEN NewState(fr, clk) ELSE st

\* Duration - Duration: panics when the result would be negative.
DurationSub(a, b) == [panic |-> b > a, value |-> IF b > a THEN 0 ELSE a - b]

\* The redraw arm with a frame taken as over once elapsed reaches its
\* delay.
RedrawRequestedInclusive(st, fr, now, clk) ==
    LET elapsed == DurationSince(now, st.current.started) IN
    IF elapsed >= st.current.frame.delay
    THEN IF Len(fr.frames) = 0
         THEN [state |-> st, request |-> now, branch |-> "next", panic |-> TRUE]
         ELSE LET index == (st.index + 1) % Len(fr.frames)
                  current == CurrentFrom(fr.frames[index + 1], clk)
              IN [state |-> [st EXCEPT !.index = index, !.current = current],
                  request |-> now + current.frame.delay,
                  branch |-> "next",
                  panic |-> FALSE]
    ELSE LET remaining == DurationSub(st.current.frame.delay, elapsed) IN
         [state |-> st,
          request |-> now + remaining.value,
          branch |-> "wait",
          panic |-> remaining.panic]

\* The redraw arm with the remaining time taken before the comparison.
RedrawRequestedEager(st, fr, now, clk) ==
    LET elapsed == DurationSince(now, st.current.started)
        remaining == DurationSub(st.current.frame.delay, elapsed)
    IN
    IF remaining.panic
    THEN [state |-> st, request |-> now, branch |-> "wait", panic |-> TRUE]
    ELSE IF elapsed > st.current.frame.delay
    THEN LET index == (st.index + 1) % Len(fr.frames)
             current == CurrentFrom(fr.frames[index + 1], clk)
         IN [state |-> [st EXCEPT !.index = index, !.current = current],
             request |-> now + current.frame.delay,
             branch |-> "next",
             panic |-> FALSE]
    ELSE [state |-> st,
          request |-> now + remaining.value,
          branch |-> "wait",
          panic |-> FALSE]

\* The redraw arm asking, after a change of frame, for the instant the
\* frame it left was due to end.
RedrawRequestedOldDeadline(st, fr, now, clk) ==
    LET elapsed == DurationSince(now, st.current.started) IN
    IF elapsed > st.current.frame.delay
    THEN LET index == (st.index + 1) % Len(fr.frames)
             current == CurrentFrom(fr.frames[index + 1], clk)
         IN [state |-> [st EXCEPT !.index = index, !.current = current],
             request |-> st.current.started + st.current.frame.delay,
             branch |-> "next",
             panic |-> FALSE]
    ELSE [state |-> st,
          request |-> now + (st.current.frame.delay - elapsed),
          branch |-> "wait",
          panic |-> FALSE]

\* Gif::on_event, the Event::Window(RedrawRequested(now)) arm.  It panics
\* on a remainder by zero (no frames), on an index past the frames (none
\* after the remainder) and on a negative remaining time.
RedrawRequested(st, fr, now, clk) ==
    LET elapsed == DurationSince(now, st.current.started) IN
    IF elapsed > st.current.frame.delay
    THEN IF Len(fr.frames) = 0
         THEN [state |-> st, request |-> now, branch |-> "next", panic |-> TRUE]
         ELSE LET index == (st.index + 1) % Len(fr.frames)
                  current == CurrentFrom(fr.frames[index + 1], clk)
              IN [state |-> [st EXCEPT !.index = index, !.current = current],
                  request |-> now + current.frame.delay,
                  branch |-> "next",
                  panic |-> FALSE]
    ELSE LET remaining == DurationSub(st.current.frame.delay, elapsed) IN
         [state |-> st,
          request |-> now + remaining.value,
          branch |-> "wait",
          panic |-> remaining.panic]

\* ------------------------------------------------------------------ state
VARIABLES
    clock,     \* Instant::now()
    bytes,     \* the container last handed to from_bytes
    result,    \* what from_bytes returned for it
    frames,    \* App.frames: the Frames the Gif widget is built over
    state,     \* the widget's State in the tree
    other,     \* the State of a second Gif built over the same Frames
    ev,        \* the last operation
    now,       \* the instant the last RedrawRequested carried
    request,   \* the last shell.request_redraw(At(..))
    branch,    \* which arm the last diff / on_event took
    status,    \* what the last on_event returned
    repeat     \* "no", or the arm the preceding on_event took when the last
               \* redraw carried the same instant as that call

vars == <<clock, bytes, result, frames, state, other, ev, now, request, branch, status,
          repeat>>

Init ==
    /\ clock = 0
    /\ bytes = None
    /\ result = [tag |-> "none", value |-> None]
    /\ frames = None
    /\ state = None
    /\ other = None
    /\ ev = "init"
    /\ now = None
    /\ request = None
    /\ branch = "none"
    /\ status = "none"
    /\ repeat = "no"

\* The process runs until from_bytes or on_event panics.
Running == result.tag # "Panic" /\ status # "Panic"

\* Time passes.
Tick ==
    /\ Running
    /\ clock < MaxTime
    /\ clock' = clock + 1
    /\ ev' = "tick"
    /\ now' = None
    /\ request' = None
    /\ branch' = "none"
    /\ status' = "none"
    /\ repeat' = "no"
    /\ UNCHANGED <<bytes, result, frames, state, other>>

\* A container is read and decoded (load_from_path / from_reader /
\* from_bytes); the application's update stores frames.ok(), its view
\* builds the Gif over it and the runtime creates (Gif::state) or diffs
\* (Gif::diff) the widget's State.  A panic in from_bytes delivers nothing
\* and ends the run.
Load(c) ==
    LET res == FromBytes(c) IN
    /\ Running
    /\ bytes' = Some(c)
    /\ result' = res
    /\ ev' = "load"
    /\ now' = None
    /\ request' = None
    /\ status' = "none"
    /\ repeat' = "no"
    /\ UNCHANGED <<clock, other>>
    /\ IF res.tag = "Panic"
       THEN /\ branch' = "panic"
            /\ UNCHANGED <<frames, state>>
       ELSE /\ frames' = OkOf(res)
            /\ IF frames' = None
               THEN state' = None /\ branch' = "dropped"
               ELSE IF state = None
               THEN /\ state' = Some(NewState(frames'[1], clock))
                    /\ branch' = "created"
               ELSE /\ state' = Some(Diff(state[1], frames'[1], clock))
                    /\ branch' = IF state[1].total_bytes # frames'[1].total_bytes
                                 THEN "reset" ELSE "kept"

\* Gif::on_event for a redraw request carrying the instant t.
OnRedraw(t) ==
    /\ Running
    /\ state # None
    /\ LET r == RedrawRequested(state[1], frames[1], t, clock) IN
       /\ state' = Some(r.state)
       /\ request' = IF r.panic THEN None ELSE Some(r.request)
       /\ branch' = r.branch
       /\ status' = IF r.panic THEN "Panic" ELSE "Ignored"
    /\ now' = Some(t)
    /\ repeat' = IF ev = "redraw" /\ now = Some(t) THEN branch ELSE "no"
    /\ ev' = "redraw"
    /\ UNCHANGED <<clock, bytes, result, frames, other>>

\* An on_event that takes any event for a redraw request at this instant.
OnOtherRedraws ==
    /\ Running
    /\ state # None
    /\ LET r == RedrawRequested(state[1], frames[1], clock, clock) IN
       /\ state' = Some(r.state)
       /\ request' = Some(r.request)
       /\ branch' = r.branch
    /\ ev' = "other"
    /\ status' = "Ignored"
    /\ now' = None
    /\ repeat' = "no"
    /\ UNCHANGED <<clock, bytes, result, frames, other>>

\* Gif::on_event for any other event.
OnOther ==
    /\ Running
    /\ state # None
    /\ ev' = "other"
    /\ status' = "Ignored"
    /\ request' = None
    /\ branch' = "none"
    /\ now' = None
    /\ repeat' = "no"
    /\ UNCHANGED <<clock, bytes, result, frames, state, other>>

Next ==
    \/ Tick
    \/ \E c \in Containers : Load(c)
    \/ \E t \in 0..clock : OnRedraw(t)
    \/ OnOther

Spec == Init /\ [][Next]_vars

\* The decoder alone: one container after another is loaded, nothing is
\* played.
NextDecode == \E c \in Containers : Load(c)

SpecDecode == Init /\ [][NextDecode]_vars

\* ------------------------------------------------- a host that is on time
\* The first Frames is loaded and never replaced.
LoadFirst(c) == state = None /\ Load(c)

\* Time passes while the host waits for the instant the widget asked for.
HostWait ==
    /\ Running
    /\ state # None
    /\ request # None
    /\ clock < request[1]
    /\ clock < MaxTime
    /\ clock' = clock + 1
    /\ UNCHANGED <<bytes, result, frames, state, other, ev, now, request, branch,
                   status, repeat>>

\* The host delivers the first redraw, and each later one at the instant
\* the widget asked for; the widget handles it at once.
HostRedraw ==
    /\ IF request = None THEN TRUE ELSE request[1] <= clock
    /\ OnRedraw(clock)

NextLive ==
    \/ \E c \in Containers : LoadFirst(c)
    \/ HostWait
    \/ HostRedraw

\* Time does not stop and the runtime honours RedrawRequest::At.
SpecLive == Init /\ [][NextLive]_vars /\ WF_vars(HostWait) /\ WF_vars(HostRedraw)

\* ------------------------------------------ two widgets over one Frames
Widgets == {1, 2}

\* Every widget's State is the one at its own place in the tree,
\* whatever widget the runtime hands the event to.
TreeShared(w) == 1

\* The tree the runtime passes with widget w: its own.
TreeOf(w) == w

\* The application's view shows the loaded Frames in two Gif widgets.
LoadShared(c) ==
    LET res == FromBytes(c) IN
    /\ Running
    /\ state = None
    /\ res.tag = "Ok"
    /\ bytes' = Some(c)
    /\ result' = res
    /\ frames' = OkOf(res)
    /\ state' = Some(NewState(frames'[1], clock))
    /\ other' = Some(NewState(frames'[1], clock))
    /\ ev' = "load"
    /\ branch' = "created"
    /\ now' = None
    /\ request' = None
    /\ status' = "none"
    /\ repeat' = "no"
    /\ UNCHANGED clock

\* Gif::on_event of widget w for a redraw request carrying the instant t.
RedrawAt(w, t) ==
    /\ Running
    /\ state # None /\ other # None
    /\ LET tree == TreeOf(w)
           st == IF tree = 1 THEN state[1] ELSE other[1]
           r == RedrawRequested(st, frames[1], t, clock)
       IN /\ state' = IF tree = 1 THEN Some(r.state) ELSE state
          /\ other' = IF tree = 2 THEN Some(r.state) ELSE other
          /\ request' = IF r.panic THEN None ELSE Some(r.request)
          /\ branch' = r.branch
          /\ status' = IF r.panic THEN "Panic" ELSE "Ignored"
    /\ now' = Some(t)
    /\ repeat' = "no"
    /\ ev' = IF w = 1 THEN "redraw" ELSE "redraw_other"
    /\ UNCHANGED <<clock, bytes, result, frames>>

\* Gif::diff of widget w when the view is rebuilt over the same Frames.
DiffAt(w) ==
    /\ Running
    /\ state # None /\ other # None
    /\ LET tree == TreeOf(w)
           st == IF tree = 1 THEN state[1] ELSE other[1]
           d == Diff(st, frames[1], clock)
       IN /\ state' = IF tree = 1 THEN Some(d) ELSE state
          /\ other' = IF tree = 2 THEN Some(d) ELSE other
    /\ ev' = IF w = 1 THEN "diff" ELSE "diff_other"
    /\ branch' = "kept"
    /\ now' = None
    /\ request' = None
    /\ status' = "none"
    /\ repeat' = "no"
    /\ UNCHANGED <<clock, bytes, result, frames>>

NextShared ==
    \/ Tick
    \/ \E c \in Containers : LoadShared(c)
    \/ \E w \in Widgets, t \in 0..clock : RedrawAt(w, t)
    \/ \E w \in Widgets : DiffAt(w)

SpecShared == Init /\ [][NextShared]_vars

\* ------------------------------------------------------------ properties
\* The frame a Frames holds at a 0-based index.
FrameAt(fr, i) == fr.frames[i + 1]

AllPositive(fr) == \A k \in 1..Len(fr.frames) : fr.frames[k].delay > 0

\* The frame boundaries after instant t, up to `until`, of a playback that
\* shows frame i from t on (every delay positive).
RECURSIVE Boundaries(_, _, _, _)
Boundaries(fr, i, t, until) ==
    LET b == t + FrameAt(fr, i).delay IN
    IF b > until THEN <<>>
    ELSE <<b>> \o Boundaries(fr, (i + 1) % Len(fr.frames), b, until)

\* The State after redraws carrying each of `calls`, each handled at the
\* instant it carries.
RECURSIVE Replay(_, _, _)
Replay(st, fr, calls) ==
    IF calls = <<>> THEN st
    ELSE Replay(RedrawRequested(st, fr, Head(calls), Head(calls)).state, fr, Tail(calls))

\* A redraw at every frame boundary up to `until`, then one at `until`.
SmallSteps(st, fr, until) ==
    LET st2 == Replay(st, fr, Boundaries(fr, st.index, st.current.started, until))
    IN RedrawRequested(st2, fr, until, until)

\* C1: one redraw after a gap leaves the State and the requested deadline
\* that redraws at every frame boundary in the gap, followed by one at the
\* same instant, leave (frames with positive delays, the current frame the
\* one at the index, the redraw handled at the instant it carries).
C1_LargeGapCatchUp ==
    [][(/\ ev' = "redraw"
        /\ AllPositive(frames[1])
        /\ state[1].index < Len(frames[1].frames)
        /\ state[1].current.frame = FrameAt(frames[1], state[1].index)
        /\ now'[1] >= state[1].current.started
        /\ now'[1] = clock)
       => LET r == SmallSteps(state[1], frames[1], now'[1]) IN
          /\ state' = Some(r.state)
          /\ request' = Some(r.request)]_vars

\* C2: over frames with delays [d0, d1], a redraw at T0 + d0 + d1 + d0/2 of
\* a State at frame 0 since T0 lands on frame 0 and requests the redraw at
\* T0 + d0 + d1 + d0.
C2_Looping ==
    [][(/\ ev' = "redraw"
        /\ Len(frames[1].frames) = 2
        /\ AllPositive(frames[1])
        /\ FrameAt(frames[1], 0).delay % 2 = 0
        /\ state[1].index = 0
        /\ state[1].current.frame = FrameAt(frames[1], 0)
        /\ now'[1] = state[1].current.started + FrameAt(frames[1], 0).delay
                       + FrameAt(frames[1], 1).delay
                       + (FrameAt(frames[1], 0).delay \div 2))
       => /\ state'[1].index = 0
          /\ state'[1].current.frame = FrameAt(frames[1], 0)
          /\ request' = Some(state[1].current.started
                               + 2 * FrameAt(frames[1], 0).delay
                               + FrameAt(frames[1], 1).delay)]_vars

\* C3: a redraw carrying exactly started + delay of the current frame moves
\* the State to the next frame.
C3_BoundaryInclusive ==
    [][(/\ ev' = "redraw"
        /\ now'[1] = state[1].current.started + state[1].current.frame.delay)
       => /\ branch' = "next"
          /\ state'[1].index = (state[1].index + 1) % Len(frames[1].frames)
          /\ state'[1].current.frame = FrameAt(frames[1], state'[1].index)]_vars

\* C4: a redraw carrying the same instant as the redraw just before it
\* changes nothing of the State and requests the same deadline.
C4_Idempotent ==
    [][repeat' # "no" => (state' = state /\ request' = request)]_vars

\* C4 witness: the first of the two redraws moved to the next frame.
C4_Witness == repeat = "next" /\ ev = "redraw" /\ branch = "wait"

\* C5: a redraw carrying an instant before started returns normally, leaves
\* the State as it is and requests the redraw a whole delay after the
\* instant it carries (elapsed taken as zero).
C5_ClockRegression ==
    [][(ev' = "redraw" /\ now'[1] < state[1].current.started)
       => /\ status' = "Ignored"
          /\ state' = state
          /\ request' = Some(now'[1] + state[1].current.frame.delay)]_vars

\* C5 witness: a redraw that stayed on its frame with an instant before
\* started.
C5_Witness ==
    /\ ev = "redraw"
    /\ branch = "wait"
    /\ now[1] < state[1].current.started

\* C6: a diff against Frames of another total_bytes resets the State to
\* index 0, the first frame of the new Frames, started at the time of the
\* diff, bound to the new total_bytes; a diff against Frames of the same
\* total_bytes leaves the State as it is.
C6_ResetOnIdentityChange ==
    [][(ev' = "load" /\ result'.tag = "Ok" /\ state # None)
       => IF state[1].total_bytes # frames'[1].total_bytes
          THEN state' = Some([index |-> 0,
                              current |-> [frame |-> FrameAt(frames'[1], 0),
                                           started |-> clock'],
                              total_bytes |-> frames'[1].total_bytes])
          ELSE state' = state]_vars

\* C6 witness: a reset, after time has passed, of a State that had been
\* created earlier.
C6_Witness ==
    /\ ev = "load"
    /\ branch = "reset"
    /\ clock > 0
    /\ state[1].current.started = clock

\* C7: a container with an accepted header and no frames decodes to an
\* error value.
C7_EmptyIsError ==
    (bytes # None /\ bytes[1].header_ok /\ bytes[1].frames = <<>>)
        => result.tag = "Err"

HasFailure(c) == ~c.header_ok \/ \E k \in 1..Len(c.frames) : ~c.frames[k].ok

\* C8: a container whose header is refused or one of whose frames fails to
\* decode yields an error and no Frames.
C8_AllOrNothing ==
    (bytes # None /\ HasFailure(bytes[1]))
        => (result.tag = "Err" /\ result.value = None /\ frames = None)

\* C8 witness: the second of two frames failed after the first decoded.
C8_Witness ==
    /\ bytes # None
    /\ bytes[1].header_ok
    /\ Len(bytes[1].frames) = 2
    /\ bytes[1].frames[1].ok
    /\ ~bytes[1].frames[2].ok
    /\ result.tag = "Err"

\* C9: every frame of decoded Frames, and the frame a State holds, has a
\* positive delay.
C9_DelayFloor ==
    /\ frames # None => AllPositive(frames[1])
    /\ state # None => state[1].current.frame.delay > 0

\* C10: the index of the State is below the number of frames of the Frames
\* the widget is built over.
C10_IndexInRange ==
    state # None => (0 <= state[1].index /\ state[1].index < Len(frames[1].frames))

\* C11: handling a redraw request never fails: the remainder is by a
\* number of frames that is not zero, the frame looked up exists, the
\* remaining time is only taken when it is not negative; so on_event
\* returns and no panic ends the run.
C11_AdvanceCannotFail ==
    /\ status # "Panic"
    /\ state # None => (frames # None /\ Len(frames[1].frames) >= 1)
    /\ ev = "redraw" => (status = "Ignored" /\ request # None)

\* A redraw later than the frame's end that wrapped around to index 0.
C11_Witness ==
    /\ ev = "redraw" /\ branch = "next" /\ status = "Ignored"
    /\ state[1].index = 0
    /\ Len(frames[1].frames) = 2
    /\ now[1] > 0

\* C12: a redraw request that comes before the current frame's delay has
\* elapsed leaves index, frame and started as they are and asks for the
\* same instant, started + delay, that the call before it asked for.
C12_EarlyCallNoOp ==
    [][(/\ ev = "redraw" /\ ev' = "redraw"
        /\ DurationSince(now'[1], state[1].current.started)
               < state[1].current.frame.delay)
       => /\ state' = state
          /\ request' = Some(state[1].current.started + state[1].current.frame.delay)
          /\ request' = request]_vars

\* C13: after every redraw request, in either arm, the instant asked for
\* is started + delay of the State the call leaves.
C13_DeadlineFormula ==
    ev = "redraw"
    => request = Some(state[1].current.started + state[1].current.frame.delay)

\* C14: started is the instant of creation plus the delays of the frames
\* shown in full since; by induction over the calls: a redraw request
\* that changes the frame moves started on by exactly the delay of the
\* frame it leaves, however late the request comes, and one that keeps
\* the frame keeps started (instants carried by the requests not
\* decreasing).
C14_NoDrift ==
    [][(/\ ev' = "redraw"
        /\ now = None \/ now'[1] >= now[1]
        /\ now'[1] >= state[1].current.started)
       => state'[1].current.started
            = IF branch' = "next"
              THEN state[1].current.started + state[1].current.frame.delay
              ELSE state[1].current.started]_vars

C16_CursorIndependence ==
    [][/\ ev' \in {"redraw", "diff"} => (other' = other /\ frames' = frames)
       /\ ev' \in {"redraw_other", "diff_other"}
             => (state' = state /\ frames' = frames)]_vars

\* The second widget has changed frame while the first stays on its own.
C16_Witness ==
    /\ ev = "redraw_other" /\ branch = "next"
    /\ other[1].index = 1 /\ state[1].index = 0
    /\ other[1].current.started > state[1].current.started

\* C17: rebinding to other Frames with the same total_bytes does not
\* start over: diff leaves index, frame and started as they were.
C17_SameIdentityKeepsState ==
    [][(/\ ev' = "load" /\ result'.tag = "Ok"
        /\ state # None
        /\ frames' # frames
        /\ frames'[1].total_bytes = state[1].total_bytes)
       => (/\ state'[1].index = state[1].index
           /\ state'[1].current.frame = state[1].current.frame
           /\ state'[1].current.started = state[1].current.started)]_vars

\* A rebinding that kept a State on its second frame, begun earlier,
\* over Frames that differ from those it was playing.
C17_Witness ==
    /\ ev = "load" /\ branch = "kept"
    /\ state[1].index = 1
    /\ state[1].current.started < clock
    /\ Len(frames[1].frames) = 2
    /\ frames[1].frames[2] # state[1].current.frame

\* C18: the frame the State holds is the frame of the bound Frames at
\* the State's index, in every reachable state.
C18_DisplayedFrame ==
    state # None
    => \E k \in 1..Len(frames[1].frames) :
           k = state[1].index + 1 /\ state[1].current.frame = frames[1].frames[k]

\* C19: every redraw request makes exactly one request_redraw; every
\* other event leaves the State as it is and makes none; on_event returns
\* Ignored for every event.
C19_EventFrame ==
    [][/\ ev' = "redraw" => (Len(request') = 1 /\ status' = "Ignored")
       /\ ev' = "other"
             => (state' = state /\ Len(request') = 0 /\ status' = "Ignored")]_vars

\* Another event arrives while the current frame is overdue.
C19_Witness ==
    /\ ev = "other" /\ status = "Ignored" /\ request = None
    /\ clock > state[1].current.started + state[1].current.frame.delay

\* C20: the instant a redraw request asks for is never earlier than the
\* instant it carried, whether or not that is earlier than started.
C20_DeadlineNotInPast == ev = "redraw" => request[1] >= now[1]

\* A request at the very end of a frame with a positive delay, after an
\* earlier one: the instant asked for is the instant carried.
C20_Witness ==
    /\ ev = "redraw" /\ branch = "wait"
    /\ state[1].current.frame.delay > 0
    /\ now[1] = state[1].current.started + state[1].current.frame.delay
    /\ request = now

====
